---- MODULE Spec2Model ----
(***************************************************************************)
(* The entry store of openrecall/database.py: create_db, insert_entry,     *)
(* get_all_entries and get_sorted_entries over the two backends selected   *)
(* by the module-level `scheme` (sqlite file, PostgreSQL with pgvector).   *)
(*                                                                         *)
(* A numpy vector of shape (dim,) is written sparsely: `head` lists its    *)
(* leading components and every later component is 0.0.  Components are    *)
(* small integers, which float32 represents exactly.                       *)
(***************************************************************************)
EXTENDS Integers, Sequences, FiniteSets, TLC

\* ------------------------------------------------------------------ bounds
MaxTs == 2      \* timestamps 100, 200, ..., 100 * MaxTs
MaxK == 2       \* top_k ranges over 0..MaxK
MaxSeq == 3     \* cap of the id sequence (PostgreSQL burns values on conflicts)
NumProcs == 2   \* concurrent callers of insert_entry

\* ------------------------------------------------------- program constants
EmbeddingDim == 384

Schemes == {"sqlite", "postgresql"}

\* Optional[int]: None is the empty set, an id n is {n}.
None == {}

Timestamps == {100 * i : i \in 1..MaxTs}

Ndarray(n, h) == [dim |-> n, head |-> h]

\* What the capture pipeline hands to insert_entry besides the timestamp.
\* The last one carries an embedding that is one component short.
Captures ==
  { [text |-> "alpha", embedding |-> Ndarray(EmbeddingDim, <<1, 0>>),
     app |-> "term", title |-> "one", filename |-> "a.webp", ocr_data |-> "{a}"],
    [text |-> "gamma", embedding |-> Ndarray(EmbeddingDim, <<0, 1>>),
     app |-> "web", title |-> "three", filename |-> "c.webp", ocr_data |-> "{c}"],
    [text |-> "delta", embedding |-> Ndarray(EmbeddingDim - 1, <<1, 0>>),
     app |-> "mail", title |-> "four", filename |-> "d.webp", ocr_data |-> "{d}"] }

\* insert_entry's argument lists.
Calls ==
  { [text |-> c.text, timestamp |-> t, embedding |-> c.embedding, app |-> c.app,
     title |-> c.title, filename |-> c.filename, ocr_data |-> c.ocr_data]
    : c \in Captures, t \in Timestamps }

\* Query vectors, as the embedding provider returns them.
Queries ==
  { Ndarray(EmbeddingDim, <<1, 0>>), Ndarray(EmbeddingDim, <<1, 1>>),
    Ndarray(EmbeddingDim, <<-1, 1>>) }

\* -------------------------------------------------- embedding (de)serialising
Abs(x) == IF x < 0 THEN -x ELSE x

RECURSIVE Log2(_)
Log2(n) == IF n < 2 THEN 0 ELSE 1 + Log2(n \div 2)

\* The four bytes, little-endian, of the IEEE-754 single that holds integer x.
Float32Bytes(x) ==
  IF x = 0 THEN <<0, 0, 0, 0>>
  ELSE LET a == Abs(x)
           e == Log2(a)
           ex == 127 + e
           m == (a - 2^e) * 2^(23 - e)
           s == IF x < 0 THEN 1 ELSE 0
       IN <<m % 256, (m \div 256) % 256, (ex % 2) * 128 + (m \div 65536),
            s * 128 + (ex \div 2)>>

\* The integer held by the IEEE-754 single with bytes b (little-endian).
BytesFloat32(b) ==
  LET s == b[4] \div 128
      ex == (b[4] % 128) * 2 + (b[3] \div 128)
      m == (b[3] % 128) * 65536 + b[2] * 256 + b[1]
  IN IF ex = 0 /\ m = 0 THEN 0
     ELSE LET e == ex - 127
              mag == 2^e + (m \div 2^(23 - e))
          IN IF s = 1 THEN -mag ELSE mag

RECURSIVE Concat(_)
Concat(ss) == IF ss = <<>> THEN <<>> ELSE Head(ss) \o Concat(Tail(ss))

\* embedding.astype(np.float32).tobytes(): 4 bytes per component; the bytes
\* after `head` are all zero.
ToBytes(e) ==
  [nbytes |-> 4 * e.dim,
   head |-> Concat([i \in 1..Len(e.head) |-> Float32Bytes(e.head[i])])]

\* np.frombuffer(data, dtype=np.float32)
FromBuffer(b) ==
  [dim |-> b.nbytes \div 4,
   head |-> [i \in 1..(Len(b.head) \div 4) |->
               BytesFloat32(SubSeq(b.head, 4 * i - 3, 4 * i))]]

serialize_embedding(s, e) == IF s = "sqlite" THEN ToBytes(e) ELSE e

deserialize_embedding(s, d) == IF s = "sqlite" THEN FromBuffer(d) ELSE d

\* --------------------------------------------------------------- the table
VARIABLES
  scheme,     \* the backend in use, fixed at import
  rows,       \* the committed rows of table entries
  seq,        \* last value of the id sequence (sqlite_sequence / entries_id_seq)
  last,       \* the finished call: its arguments, the table before it, its outcome
  procs,      \* per concurrent caller of insert_entry: where it is, its locals
  pend,       \* rows written by transactions not yet committed, with their owner
  writer      \* the caller whose connection holds sqlite's write lock, if any

vars == <<scheme, rows, seq, last, procs, pend, writer>>

Procs == 1..NumProcs

Idle == [pc |-> "idle", call |-> <<>>, rowcount |-> 0, last_id |-> None]

HasTimestamp(rs, t) == \E r \in rs : r.timestamp = t

\* The number of the row a successful INSERT creates.
NextIdStale(sq) == IF sq = 0 THEN 1 ELSE sq
NextId(sq) == sq + 1

\* A column of type vector(384) takes no vector of another length; a BLOB
\* column takes any bytes.
DimensionError(s, data) == s = "postgresql" /\ data.dim # EmbeddingDim

NewRow(c, data, id) ==
  [id |-> id, app |-> c.app, title |-> c.title, text |-> c.text,
   timestamp |-> c.timestamp, embedding |-> data, filename |-> c.filename,
   ocr_data |-> c.ocr_data]

\* What the table holds after an INSERT of `new` that met the UNIQUE
\* constraint on timestamp: OR IGNORE / ON CONFLICT DO NOTHING keep it as it is.
OnConflictReplace(rs, new) == {r \in rs : r.timestamp # new.timestamp} \cup {new}
OnConflict(rs, new) == rs

\* cursor.execute of the INSERT statement: the table and the sequence after
\* it, the number of rows it created, and whether the backend raised.
ExecuteInsert(s, rs, sq, c) ==
  LET data == serialize_embedding(s, c.embedding)
      new == NewRow(c, data, NextId(sq))
  IN IF DimensionError(s, data)
       THEN [rows |-> rs, seq |-> sq, rowcount |-> 0, raised |-> TRUE]
     ELSE IF HasTimestamp(rs, c.timestamp)
       THEN [rows |-> OnConflict(rs, new),
             seq |-> IF s = "postgresql" THEN sq + 1 ELSE sq,
             rowcount |-> 0, raised |-> FALSE]
     ELSE [rows |-> rs \cup {new}, seq |-> sq + 1, rowcount |-> 1,
           raised |-> FALSE]

\* SELECT id FROM entries WHERE timestamp = ? / RETURNING id, then fetchone.
SelectId(rs, t) ==
  LET ids == {r.id : r \in {x \in rs : x.timestamp = t}}
  IN IF ids = {} THEN None ELSE {CHOOSE i \in ids : TRUE}

\* last_id, from cursor.rowcount (sqlite) or the returned row (PostgreSQL).
LastIdOffByOne(x, t) == IF x.rowcount > 1 THEN SelectId(x.rows, t) ELSE None
LastId(x, t) == IF x.rowcount > 0 THEN SelectId(x.rows, t) ELSE None

Faults == {"none", "connect", "execute", "commit"}

\* One run of insert_entry with the backend failing at `fault`: nothing
\* catches an exception, so the statements after the one that raised,
\* conn.close() among them, do not run; a transaction that was not committed
\* is rolled back, except for the values drawn from a PostgreSQL sequence.
InsertRun(s, rs, sq, c, fault) ==
  IF fault = "connect"
    THEN [rows |-> rs, seq |-> sq, raised |-> TRUE, value |-> None,
          opened |-> FALSE, closed |-> FALSE, executes |-> 0]
  ELSE IF fault = "execute"
    THEN [rows |-> rs, seq |-> sq, raised |-> TRUE, value |-> None,
          opened |-> TRUE, closed |-> FALSE, executes |-> 1]
  ELSE LET x == ExecuteInsert(s, rs, sq, c)
       IN IF x.raised
            THEN [rows |-> rs, seq |-> sq, raised |-> TRUE, value |-> None,
                  opened |-> TRUE, closed |-> FALSE, executes |-> 1]
          ELSE IF fault = "commit"
            THEN [rows |-> rs, seq |-> IF s = "postgresql" THEN x.seq ELSE sq,
                  raised |-> TRUE, value |-> None,
                  opened |-> TRUE, closed |-> FALSE, executes |-> 1]
          ELSE [rows |-> x.rows, seq |-> x.seq, raised |-> FALSE,
                value |-> LastId(x, c.timestamp),
                opened |-> TRUE, closed |-> TRUE, executes |-> 1]

Record(op, args, before, run, fault) ==
  [op |-> op, args |-> args, before |-> before, raised |-> run.raised,
   value |-> run.value, executes |-> run.executes, fault |-> fault,
   opened |-> run.opened, closed |-> run.closed]

\* The table exists: __main__ runs create_db() before anything else.
Init ==
  /\ scheme \in Schemes
  /\ rows = {}
  /\ seq = 0
  /\ last = [op |-> "create_db", args |-> <<>>, before |-> {}, raised |-> FALSE,
             value |-> None, executes |-> 1, fault |-> "none",
             opened |-> TRUE, closed |-> TRUE]
  /\ procs = [p \in Procs |-> Idle]
  /\ pend = {}
  /\ writer = {}

Finish(op, args, run, fault) ==
  /\ run.seq <= MaxSeq
  /\ rows' = run.rows
  /\ seq' = run.seq
  /\ last' = Record(op, args, rows, run, fault)
  /\ UNCHANGED <<scheme, procs, pend, writer>>

\* ----------------------------------------------------------------- reads
Min(a, b) == IF a < b THEN a ELSE b

\* The ways of listing the elements of S once each.
Orderings(S) ==
  {f \in [1..Cardinality(S) -> S] : \A i, j \in 1..Cardinality(S) : i # j => f[i] # f[j]}

\* ORDER BY timestamp DESC: row a may come right before row b.
TimestampAsc(a, b) == a.timestamp <= b.timestamp
TimestampDesc(a, b) == a.timestamp >= b.timestamp

\* cursor.fetchall() of SELECT ... FROM entries ORDER BY timestamp DESC.
SelectAllOrdered(rs) ==
  {f \in Orderings(rs) : \A i \in 1..(Cardinality(rs) - 1) : TimestampDesc(f[i], f[i + 1])}

ToEntry(s, r) == [r EXCEPT !.embedding = deserialize_embedding(s, r.embedding)]

\* One run of get_all_entries that fetched the rows in the order `fetched`.
GetAllRun(s, rs, sq, fetched) ==
  [rows |-> rs, seq |-> sq, raised |-> FALSE,
   value |-> [i \in 1..Len(fetched) |-> ToEntry(s, fetched[i])],
   opened |-> TRUE, closed |-> TRUE, executes |-> 1]

RECURSIVE DotFrom(_, _, _)
DotFrom(a, b, i) ==
  IF i > Len(a) \/ i > Len(b) THEN 0 ELSE a[i] * b[i] + DotFrom(a, b, i + 1)

Dot(a, b) == DotFrom(a.head, b.head, 1)

Sign(x) == IF x < 0 THEN -1 ELSE IF x > 0 THEN 1 ELSE 0

\* dot(a,b) / (||a|| * ||b||), kept exact as the fraction num/den with the
\* value sgn(cos) * cos^2, which orders pairs of vectors as the cosine does
\* and is 1 for identical non-zero vectors.
cosine_similarity(a, b) ==
  [num |-> Sign(Dot(a, b)) * Dot(a, b) * Dot(a, b), den |-> Dot(a, a) * Dot(b, b)]

SimLess(x, y) == x.num * y.den < y.num * x.den
SimEq(x, y) == x.num * y.den = y.num * x.den

\* np.dot of two vectors of different shapes raises ValueError.
ShapeMismatch(q, es) == \E i \in 1..Len(es) : es[i].embedding.dim # q.dim

\* np.argsort(similarities): the default sort is not stable, so any index
\* order that puts the values in ascending order can come back.
Argsort(sims) ==
  {p \in Orderings(1..Len(sims)) :
     \A i \in 1..(Len(sims) - 1) : ~SimLess(sims[p[i + 1]], sims[p[i]])}

\* [::-1]
Unreversed(p) == p
Reverse(p) == [i \in 1..Len(p) |-> p[Len(p) + 1 - i]]

\* [:top_k], top_k >= 0
Take(p, k) == SubSeq(p, 1, Min(k, Len(p)))

\* The in-process strategy over the list get_all_entries returned: every
\* list it can return.
InProcessResults(es, q, k) ==
  LET sims == [i \in 1..Len(es) |-> cosine_similarity(q, es[i].embedding)]
  IN IF es = <<>> THEN {<<>>}
     ELSE {[i \in 1..Min(k, Len(es)) |-> es[Take(Reverse(p), k)[i]]] : p \in Argsort(sims)}

\* ORDER BY embedding <=> q: cosine distance is 1 - cosine, row a may come
\* right before row b when its distance is not the larger one.
CosineDistanceOrder(q, a, b) ==
  ~SimLess(cosine_similarity(q, a.embedding), cosine_similarity(q, b.embedding))

\* The native strategy: every list ORDER BY embedding <=> q LIMIT k can return.
NativeResults(s, rs, q, k) ==
  {[i \in 1..Min(k, Cardinality(rs)) |-> ToEntry(s, f[i])] :
     f \in {g \in Orderings(rs) :
              \A i \in 1..(Cardinality(rs) - 1) : CosineDistanceOrder(q, g[i], g[i + 1])}}

\* pgvector raises "different vector dimensions" on the first row it compares.
NativeRaises(rs, q) == \E r \in rs : r.embedding.dim # q.dim

ReadRun(rs, sq, raised, value, closed) ==
  [rows |-> rs, seq |-> sq, raised |-> raised, value |-> value,
   opened |-> TRUE, closed |-> closed, executes |-> 1]

\* create_db on a database that holds the table: every statement is
\* IF NOT EXISTS, and the UNIQUE constraint is found.
CreateDbRun(rs, sq) ==
  [rows |-> rs, seq |-> sq, raised |-> FALSE, value |-> None,
   opened |-> TRUE, closed |-> TRUE, executes |-> 1]

\* --------------------------------------------------------------- actions
insert_entry ==
  \E c \in Calls :
    Finish("insert_entry", c, InsertRun(scheme, rows, seq, c, "none"), "none")

get_all_entries ==
  \E f \in SelectAllOrdered(rows) :
    Finish("get_all_entries", <<>>, GetAllRun(scheme, rows, seq, f), "none")

\* scheme == "sqlite": get_all_entries() opens and closes its own connection,
\* then the ranking runs in the process.
get_sorted_entries_sqlite ==
  /\ scheme = "sqlite"
  /\ \E q \in Queries, k \in 0..MaxK, f \in SelectAllOrdered(rows) :
       LET es == GetAllRun(scheme, rows, seq, f).value
       IN IF es # <<>> /\ ShapeMismatch(q, es)
            THEN Finish("get_sorted_entries", [q |-> q, k |-> k],
                        ReadRun(rows, seq, TRUE, <<>>, TRUE), "none")
          ELSE \E v \in InProcessResults(es, q, k) :
                 Finish("get_sorted_entries", [q |-> q, k |-> k],
                        ReadRun(rows, seq, FALSE, v, TRUE), "none")

\* scheme == "postgresql": one SELECT, ranked and limited by the server.
get_sorted_entries_postgresql ==
  /\ scheme = "postgresql"
  /\ \E q \in Queries, k \in 0..MaxK :
       IF NativeRaises(rows, q)
         THEN Finish("get_sorted_entries", [q |-> q, k |-> k],
                     ReadRun(rows, seq, TRUE, <<>>, FALSE), "none")
       ELSE \E v \in NativeResults(scheme, rows, q, k) :
              Finish("get_sorted_entries", [q |-> q, k |-> k],
                     ReadRun(rows, seq, FALSE, v, TRUE), "none")

create_db == Finish("create_db", <<>>, CreateDbRun(rows, seq), "none")

Next ==
  \/ insert_entry
  \/ get_all_entries
  \/ get_sorted_entries_sqlite
  \/ get_sorted_entries_postgresql
  \/ create_db

Spec == Init /\ [][Next]_vars

\* ------------------------------------------------- the backend failing
insert_entry_fails ==
  \E c \in Calls, fault \in Faults \ {"none"} :
    Finish("insert_entry", c, InsertRun(scheme, rows, seq, c, fault), fault)

NextFault == Next \/ insert_entry_fails

SpecFault == Init /\ [][NextFault]_vars

\* ------------------------------------------- concurrent insert_entry calls
\* No lock of the program's own: each caller runs insert_entry on a
\* connection of its own, one statement at a time.

\* Whether caller p's INSERT of timestamp t has to wait.  sqlite lets one
\* connection write at a time (the INSERT opens a transaction that holds the
\* write lock until commit); PostgreSQL makes an INSERT wait for the
\* transaction that holds an uncommitted row with the same unique key.
MustWaitNever(s, p, t, pd, w) == FALSE
MustWait(s, p, t, pd, w) ==
  IF s = "sqlite" THEN w # {} /\ w # {p}
  ELSE \E x \in pd : x.owner # p /\ x.row.timestamp = t

\* The rows caller p's statements see: the committed ones and its own.
Visible(p) == rows \cup {x.row : x \in {y \in pend : y.owner = p}}

\* lines 168-170: serialize_embedding, get_connection, get_cursor
Call(p) ==
  /\ procs[p].pc = "idle"
  /\ \E c \in Calls : procs' = [procs EXCEPT ![p] = [@ EXCEPT !.pc = "execute", !.call = c]]
  /\ UNCHANGED <<scheme, rows, seq, last, pend, writer>>

\* lines 172-176 / 184-190: the INSERT statement, one atomic step of the backend
Execute(p) ==
  LET c == procs[p].call
      x == ExecuteInsert(scheme, Visible(p), seq, c)
  IN /\ procs[p].pc = "execute"
     /\ ~MustWait(scheme, p, c.timestamp, pend, writer)
     /\ x.seq <= MaxSeq
     /\ seq' = x.seq
     /\ pend' = pend \cup {[row |-> r, owner |-> p] : r \in x.rows \ Visible(p)}
     /\ writer' = IF scheme = "sqlite" /\ ~x.raised THEN {p} ELSE writer
     /\ procs' = [procs EXCEPT ![p] =
                    [@ EXCEPT !.pc = IF x.raised THEN "raised" ELSE "fetch",
                              !.rowcount = x.rowcount]]
     /\ UNCHANGED <<scheme, rows, last>>

\* lines 177-182 / 191-192: last_id
Fetch(p) ==
  /\ procs[p].pc = "fetch"
  /\ procs' = [procs EXCEPT ![p] =
                 [@ EXCEPT !.pc = "commit",
                           !.last_id = LastId([rowcount |-> procs[p].rowcount,
                                               rows |-> Visible(p)],
                                              procs[p].call.timestamp)]]
  /\ UNCHANGED <<scheme, rows, seq, last, pend, writer>>

\* line 193: conn.commit()
Commit(p) ==
  /\ procs[p].pc = "commit"
  /\ rows' = Visible(p)
  /\ pend' = {x \in pend : x.owner # p}
  /\ writer' = writer \ {p}
  /\ procs' = [procs EXCEPT ![p] = [@ EXCEPT !.pc = "close"]]
  /\ UNCHANGED <<scheme, seq, last>>

\* lines 194-195: conn.close(); return last_id
Return(p) ==
  /\ procs[p].pc = "close"
  /\ procs' = [procs EXCEPT ![p] = [@ EXCEPT !.pc = "done"]]
  /\ UNCHANGED <<scheme, rows, seq, last, pend, writer>>

NextConc ==
  \E p \in Procs : Call(p) \/ Execute(p) \/ Fetch(p) \/ Commit(p) \/ Return(p)

SpecConc == Init /\ [][NextConc]_vars

\* ------------------------------------------------------------ properties
IsInsert == last.op = "insert_entry"
IsSearch == last.op = "get_sorted_entries"

\* The backend's embedding column takes the embedding of the finished insert.
ColumnTakesEmbedding ==
  ~(scheme = "postgresql" /\ last.args.embedding.dim # EmbeddingDim)

Collides == HasTimestamp(last.before, last.args.timestamp)

\* C1 as stated: an insert whose timestamp is already stored never raises,
\* returns None and leaves the table as it was.
DuplicateInsertNeverRaises ==
  (IsInsert /\ Collides) =>
    (~last.raised /\ last.value = None /\ rows = last.before)

\* C1, amended: an insert whose timestamp is already stored, with an embedding
\* the backend's column takes, does not raise, returns None and leaves the
\* table (every field of every row) as it was; with an embedding the
\* vector(384) column refuses it raises, and the table is as it was too.
DuplicateInsertIsNoOp ==
  (IsInsert /\ Collides) =>
    /\ rows = last.before
    /\ ColumnTakesEmbedding => (~last.raised /\ last.value = None)
    /\ ~ColumnTakesEmbedding => last.raised

\* A colliding insert that differs in its text from the stored row came back
\* with None.
DuplicateInsertSeen ==
  /\ IsInsert /\ Collides /\ ColumnTakesEmbedding
  /\ \E r \in rows : r.timestamp = last.args.timestamp /\ r.text # last.args.text
  /\ last.value = None

\* The row insert_entry's arguments make, whatever its id.
RowOf(r, c) ==
  /\ r.app = c.app /\ r.title = c.title /\ r.text = c.text
  /\ r.timestamp = c.timestamp /\ r.filename = c.filename
  /\ r.ocr_data = c.ocr_data
  /\ r.embedding = serialize_embedding(scheme, c.embedding)

CreatedOneRow ==
  /\ ~last.raised
  /\ last.before \subseteq rows
  /\ Cardinality(rows \ last.before) = 1
  /\ \A r \in rows \ last.before :
       /\ RowOf(r, last.args)
       /\ last.value = {r.id}
       /\ scheme = "sqlite" => \A b \in last.before : b.id < r.id

UniqueIds == \A r1, r2 \in rows : r1.id = r2.id => r1 = r2

\* C7 as stated: every insert whose timestamp is not stored creates exactly
\* one row and returns its id; ids are unique, and increasing on sqlite.
FreshInsertAlwaysCreates ==
  /\ UniqueIds
  /\ (IsInsert /\ ~Collides) => CreatedOneRow

\* C7, amended: every insert whose timestamp is not stored, with an embedding
\* the backend's column takes, creates exactly one row, made of its
\* arguments, and returns that row's id; ids are unique over the table, and
\* on sqlite the new id is greater than every id handed out before.
FreshInsertCreatesOneRow ==
  /\ UniqueIds
  /\ (IsInsert /\ ~Collides /\ ColumnTakesEmbedding) => CreatedOneRow

\* On sqlite a second row was created and got id 2.
SecondRowCreated ==
  /\ IsInsert /\ ~Collides /\ scheme = "sqlite"
  /\ last.before # {} /\ last.value = {2}

\* The scenario of the specification: inserts at 100, 200, 100, 300.
ScenarioCalls ==
  LET a == CHOOSE c \in Captures : c.text = "alpha"
      g == CHOOSE c \in Captures : c.text = "gamma"
      call(c, t) == [text |-> c.text, timestamp |-> t, embedding |-> c.embedding,
                     app |-> c.app, title |-> c.title, filename |-> c.filename,
                     ocr_data |-> c.ocr_data]
  IN <<call(a, 100), call(g, 200), call(g, 100), call(a, 300)>>

RECURSIVE InsertAll(_, _, _, _)
InsertAll(s, rs, sq, cs) ==
  IF cs = <<>> THEN rs
  ELSE LET run == InsertRun(s, rs, sq, Head(cs), "none")
       IN InsertAll(s, run.rows, run.seq, Tail(cs))

ScenarioListings(s) ==
  {[i \in 1..Len(f) |-> f[i].timestamp] :
     f \in SelectAllOrdered(InsertAll(s, {}, 0, ScenarioCalls))}

\* C3: get_all_entries returns every stored row exactly once, by timestamp
\* strictly descending; after inserts at 100, 200, 100, 300 it lists
\* 300, 200, 100.
ListAllIsComplete ==
  /\ last.op = "get_all_entries" =>
       /\ ~last.raised
       /\ Len(last.value) = Cardinality(rows)
       /\ {last.value[i] : i \in 1..Len(last.value)} = {ToEntry(scheme, r) : r \in rows}
       /\ \A i \in 1..(Len(last.value) - 1) :
            last.value[i].timestamp > last.value[i + 1].timestamp
  /\ \A s \in Schemes : ScenarioListings(s) = {<<300, 200, 100>>}

\* Two rows were listed, the later-inserted one (the larger id) first.
ListedNewestFirst ==
  /\ last.op = "get_all_entries" /\ Len(last.value) = 2
  /\ last.value[1].timestamp = 200 /\ last.value[2].timestamp = 100
  /\ last.value[1].id > last.value[2].id

\* C8 as stated: every stored embedding has the configured dimension.
StoredEmbeddingsHaveConfiguredDimension ==
  \A r \in rows : deserialize_embedding(scheme, r.embedding).dim = EmbeddingDim

\* C10 as stated: the finished call left no connection of its own open.
NoConnectionLeftOpen == last.opened => last.closed

SimOf(e) == cosine_similarity(last.args.q, e.embedding)

\* C4 as stated: on sqlite a search returns min(k, |E|) stored entries, no
\* entry twice, in descending order of similarity, and no entry left out is
\* more similar than one returned.
InProcessSearchReturnsTopK ==
  (IsSearch /\ scheme = "sqlite") =>
    LET v == last.value
        E == {ToEntry(scheme, r) : r \in last.before}
    IN /\ ~last.raised
       /\ Len(v) = Min(last.args.k, Cardinality(E))
       /\ \A i \in 1..Len(v) : v[i] \in E
       /\ \A i, j \in 1..Len(v) : i # j => v[i] # v[j]
       /\ \A i \in 1..(Len(v) - 1) : ~SimLess(SimOf(v[i]), SimOf(v[i + 1]))
       /\ \A e \in E \ {v[i] : i \in 1..Len(v)} :
            \A i \in 1..Len(v) : ~SimLess(SimOf(v[i]), SimOf(e))

\* C9 as stated: entries of equal similarity come back in the order
\* get_all_entries lists them, timestamp descending.
TiesKeepRetrievalOrder ==
  (IsSearch /\ scheme = "sqlite" /\ ~last.raised) =>
    \A i, j \in 1..Len(last.value) :
      (i < j /\ SimEq(SimOf(last.value[i]), SimOf(last.value[j]))) =>
        last.value[i].timestamp > last.value[j].timestamp

\* The same rows as the other backend stores them.
Transcode(from, to, rs) ==
  {[r EXCEPT !.embedding =
      serialize_embedding(to, deserialize_embedding(from, r.embedding))] : r \in rs}

\* Rows that both backends can hold.
Storable(rs) ==
  \A r \in rs : deserialize_embedding(scheme, r.embedding).dim = EmbeddingDim

\* Every list the other backend's strategy can return for the finished search.
OtherStrategyResults ==
  IF scheme = "sqlite"
    THEN NativeResults("postgresql", Transcode("sqlite", "postgresql", last.before),
                       last.args.q, last.args.k)
  ELSE LET t == Transcode("postgresql", "sqlite", last.before)
       IN UNION {InProcessResults(GetAllRun("sqlite", t, seq, f).value,
                                  last.args.q, last.args.k) : f \in SelectAllOrdered(t)}

\* C5: over the same rows, query and top_k, what one strategy returned and
\* anything the other can return have the same length and, place by place,
\* entries of equal similarity to the query (the same entry, or one tied
\* with it).
StrategiesAgree ==
  (IsSearch /\ ~last.raised /\ Storable(last.before)) =>
    \A w \in OtherStrategyResults :
      /\ Len(w) = Len(last.value)
      /\ \A i \in 1..Len(w) :
           /\ SimEq(SimOf(w[i]), SimOf(last.value[i]))
           /\ w[i].id = last.value[i].id
                \/ \E e \in {ToEntry(scheme, r) : r \in last.before} :
                     e.id # last.value[i].id /\ SimEq(SimOf(e), SimOf(last.value[i]))

\* A search over two rows of different similarity returned only the closer.
SearchCutTheTail ==
  /\ IsSearch /\ ~last.raised /\ last.args.k = 1 /\ Len(last.value) = 1
  /\ \E r \in last.before :
       SimLess(SimOf(ToEntry(scheme, r)), SimOf(last.value[1]))

\* C6: insert_entry returns None only when the timestamp was already stored;
\* when the backend fails (the connection, the statement, the commit, or a
\* vector(384) column refusing the embedding) the call raises instead of
\* returning, the INSERT was issued at most once, and the table is as it was.
InsertFailuresAreRaised ==
  IsInsert =>
    /\ (~last.raised /\ last.value = None) => Collides
    /\ (last.fault # "none" \/ ~ColumnTakesEmbedding) => last.raised
    /\ last.raised => rows = last.before
    /\ last.executes <= 1

\* The commit of an insert of a new timestamp failed: the call raised and the
\* table does not hold the row.
CommitFailureSeen ==
  /\ IsInsert /\ last.fault = "commit" /\ ~Collides
  /\ last.raised /\ ~HasTimestamp(rows, last.args.timestamp)

\* ------------------------------------------------ concurrent properties
Stored == rows \cup {x.row : x \in pend}

UniqueTimestamps == \A r1, r2 \in Stored : r1.timestamp = r2.timestamp => r1 = r2

Settled == \A p \in Procs : procs[p].pc \in {"done", "raised"}

Used(t) == {p \in Procs : procs[p].pc # "idle" /\ procs[p].call.timestamp = t}

Returned(t) == {p \in Used(t) : procs[p].pc = "done"}

Winners(t) == {p \in Returned(t) : procs[p].last_id # None}

\* C2 as stated: no two stored rows share a timestamp, and once every call
\* is over, of the calls that used one timestamp exactly one returned an id
\* and every other one returned None.
ExactlyOneCallWins ==
  /\ UniqueTimestamps
  /\ Settled =>
       \A t \in Timestamps :
         Used(t) # {} => (Cardinality(Winners(t)) = 1 /\ Returned(t) = Used(t))

\* C2, amended: no two stored rows share a timestamp, committed or not; of
\* the calls that used one timestamp and returned, at most one returned an
\* id, that of the committed row with this timestamp, which holds that call's
\* arguments; and once every call is over, exactly one of them did, every
\* other one returned None.  (A call whose embedding the vector(384) column
\* refuses raises and is none of them.)
OneReturnedCallWins ==
  /\ UniqueTimestamps
  /\ \A t \in Timestamps :
       /\ Cardinality(Winners(t)) <= 1
       /\ \A p \in Winners(t) :
            \E r \in rows : /\ r.timestamp = t
                            /\ procs[p].last_id = {r.id}
                            /\ RowOf(r, procs[p].call)
       /\ (Settled /\ Returned(t) # {}) => Cardinality(Winners(t)) = 1

\* Two calls with one timestamp and different texts are over: one got the
\* id, the other None.
TwoCallsOneWinner ==
  \E p, q \in Procs :
    /\ procs[p].pc = "done" /\ procs[q].pc = "done"
    /\ procs[p].call.timestamp = procs[q].call.timestamp
    /\ procs[p].call.text # procs[q].call.text
    /\ procs[p].last_id # None /\ procs[q].last_id = None
====
